---- MODULE Spec2Model ----
(***************************************************************************)
(* A model of the NDR XML validator (src/app.py): the upload handler       *)
(* upload_file, the extractor extract_services_with_dates and the rule      *)
(* battery validate_ndr.                                                    *)
(*                                                                          *)
(* Text is modelled as a sequence of one-character strings, so that the     *)
(* conversions of the code (datetime.strptime, int, str.upper, the          *)
(* substring test) are computed on characters.  None is the value a missing *)
(* node or a missing dictionary key gives.                                  *)
(***************************************************************************)
EXTENDS Integers, Sequences, FiniteSets, TLC

VARIABLES doc, fname, fs, pc, services, v_issues, ran, issues, error_message

vars == <<doc, fname, fs, pc, services, v_issues, ran, issues, error_message>>

(***************************************************************************)
(* Bounds of the model.                                                     *)
(***************************************************************************)
MaxEnc == 2
MaxReg == 2
MaxLab == 2
MaxMix == 3

(***************************************************************************)
(* Text values.                                                             *)
(***************************************************************************)
None == <<"None">>
Empty == <<>>

Truthy(t) == t # None /\ t # Empty

\* x or y, for a text x
OrElse(x, y) == IF Truthy(x) THEN x ELSE y

Unknown == <<"U", "n", "k", "n", "o", "w", "n">>

Digits == <<"0", "1", "2", "3", "4", "5", "6", "7", "8", "9">>

IsDigit(c) == \E i \in 1..Len(Digits) : Digits[i] = c

DigitVal(c) == (CHOOSE i \in 1..Len(Digits) : Digits[i] = c) - 1

AllDigits(s) == \A i \in 1..Len(s) : IsDigit(s[i])

RECURSIVE NumVal(_)
NumVal(s) == IF s = <<>> THEN 0
             ELSE NumVal(SubSeq(s, 1, Len(s) - 1)) * 10 + DigitVal(s[Len(s)])

LowerCase == <<"a", "b", "c", "d", "e", "f", "g", "h", "i", "j", "k", "l", "m",
               "n", "o", "p", "q", "r", "s", "t", "u", "v", "w", "x", "y", "z">>
UpperCase == <<"A", "B", "C", "D", "E", "F", "G", "H", "I", "J", "K", "L", "M",
               "N", "O", "P", "Q", "R", "S", "T", "U", "V", "W", "X", "Y", "Z">>

UpperChar(c) == IF \E i \in 1..Len(LowerCase) : LowerCase[i] = c
                THEN UpperCase[CHOOSE i \in 1..Len(LowerCase) : LowerCase[i] = c]
                ELSE c

\* str.upper()
Upper(s) == [i \in 1..Len(s) |-> UpperChar(s[i])]

\* sub in s
Contains(s, sub) ==
    \E i \in 1..(Len(s) - Len(sub) + 1) : SubSeq(s, i, i + Len(sub) - 1) = sub

INH == <<"I", "N", "H">>

\* 'INH' in code.upper()
IsIPT(code) == Contains(Upper(code), INH)

(***************************************************************************)
(* datetime.strptime(s, "%Y-%m-%d"): the format's regular expression        *)
(* (\d{4})-(1[0-2]|0[1-9]|[1-9])-(3[01]|[12]\d|0[1-9]|[1-9]| [1-9]) must    *)
(* match the whole text, and the fields must name a day of the calendar.    *)
(* The result is [ok, y, m, d]; ok = FALSE stands for the exception raised  *)
(* (TypeError for None, ValueError otherwise).                              *)
(***************************************************************************)
NoDate == [ok |-> FALSE, y |-> 0, m |-> 0, d |-> 0]

IsLeap(y) == (y % 4 = 0 /\ y % 100 # 0) \/ y % 400 = 0

DaysInMonth(y, m) ==
    IF m = 2 THEN (IF IsLeap(y) THEN 29 ELSE 28)
    ELSE IF m \in {4, 6, 9, 11} THEN 30 ELSE 31

MonthField(s) ==
    \/ Len(s) = 2 /\ s[1] = "1" /\ s[2] \in {"0", "1", "2"}
    \/ Len(s) = 2 /\ s[1] = "0" /\ IsDigit(s[2]) /\ s[2] # "0"
    \/ Len(s) = 1 /\ IsDigit(s[1]) /\ s[1] # "0"

DayField(s) ==
    \/ Len(s) = 2 /\ s[1] = "3" /\ s[2] \in {"0", "1"}
    \/ Len(s) = 2 /\ s[1] \in {"1", "2"} /\ IsDigit(s[2])
    \/ Len(s) = 2 /\ s[1] = "0" /\ IsDigit(s[2]) /\ s[2] # "0"
    \/ Len(s) = 1 /\ IsDigit(s[1]) /\ s[1] # "0"
    \/ Len(s) = 2 /\ s[1] = " " /\ IsDigit(s[2]) /\ s[2] # "0"

DayVal(s) == IF s[1] = " " THEN DigitVal(s[2]) ELSE NumVal(s)

StrpTime(s) ==
    IF s = None THEN NoDate
    ELSE LET dashes == {i \in 1..Len(s) : s[i] = "-"}
         IN  IF Cardinality(dashes) # 2 THEN NoDate
             ELSE LET i1 == CHOOSE i \in dashes : \A j \in dashes : i <= j
                      i2 == CHOOSE i \in dashes : \A j \in dashes : j <= i
                      ys == SubSeq(s, 1, i1 - 1)
                      ms == SubSeq(s, i1 + 1, i2 - 1)
                      ds == SubSeq(s, i2 + 1, Len(s))
                  IN  IF ~(Len(ys) = 4 /\ AllDigits(ys) /\ MonthField(ms) /\ DayField(ds))
                      THEN NoDate
                      ELSE LET y == NumVal(ys)
                               m == NumVal(ms)
                               d == DayVal(ds)
                           IN  IF y >= 1 /\ d <= DaysInMonth(y, m)
                               THEN [ok |-> TRUE, y |-> y, m |-> m, d |-> d]
                               ELSE NoDate

\* a < b on datetimes (both at midnight)
DateLess(a, b) ==
    \/ a.y < b.y
    \/ a.y = b.y /\ a.m < b.m
    \/ a.y = b.y /\ a.m = b.m /\ a.d < b.d

(***************************************************************************)
(* int(s) for a text: surrounding whitespace is stripped, a sign is         *)
(* allowed, and the digits may be grouped by single underscores.            *)
(* The result is [ok, val]; ok = FALSE stands for the exception raised.     *)
(***************************************************************************)
NoInt == [ok |-> FALSE, val |-> 0]

RECURSIVE Strip(_)
Strip(s) == IF s = <<>> THEN s
            ELSE IF s[1] = " " THEN Strip(Tail(s))
            ELSE IF s[Len(s)] = " " THEN Strip(SubSeq(s, 1, Len(s) - 1))
            ELSE s

DigitGroups(s) ==
    /\ s # <<>>
    /\ IsDigit(s[1]) /\ IsDigit(s[Len(s)])
    /\ \A i \in 1..Len(s) : IsDigit(s[i]) \/ s[i] = "_"
    /\ \A i \in 1..(Len(s) - 1) : ~(s[i] = "_" /\ s[i + 1] = "_")

DropUnderscores(s) == SelectSeq(s, LAMBDA c : c # "_")

IntParse(s) ==
    IF s = None THEN NoInt
    ELSE LET t == Strip(s)
             neg == t # <<>> /\ t[1] = "-"
             body == IF t # <<>> /\ t[1] \in {"+", "-"} THEN Tail(t) ELSE t
         IN  IF DigitGroups(body)
             THEN [ok |-> TRUE,
                   val |-> IF neg THEN 0 - NumVal(DropUnderscores(body))
                           ELSE NumVal(DropUnderscores(body))]
             ELSE NoInt

(***************************************************************************)
(* Python dictionaries: a sequence of [k, v] entries in insertion order.    *)
(* Assigning to a key that is present replaces its value and keeps its      *)
(* position.                                                                *)
(***************************************************************************)
DictHas(d, k) == \E i \in 1..Len(d) : d[i].k = k

DictIndex(d, k) == CHOOSE i \in 1..Len(d) : d[i].k = k

DictGet(d, k) == d[DictIndex(d, k)].v

\* d[k] = v done as a removal and an insertion: the key moves to the end
DictSet_MoveToEnd(d, k, v) ==
    Append(SelectSeq(d, LAMBDA en : en.k # k), [k |-> k, v |-> v])

\* d[k] = v
DictSet(d, k, v) ==
    IF DictHas(d, k)
    THEN [d EXCEPT ![DictIndex(d, k)] = [k |-> k, v |-> v]]
    ELSE Append(d, [k |-> k, v |-> v])

\* dict.get(k) on the patient dictionary, whose keys may be missing
Get(p, k) == IF k \in DOMAIN p THEN p[k] ELSE None

RECURSIVE Flatten(_)
Flatten(ss) == IF ss = <<>> THEN <<>> ELSE Head(ss) \o Flatten(Tail(ss))

(***************************************************************************)
(* The document.  A document is what ET.parse and the find calls see of it: *)
(* whether it is well-formed, the first PatientDemographics, CommonQuestions*)
(* and HIVQuestions nodes (present or not) with the text of the children    *)
(* read from them, and the Regimen, HIVEncounter and LaboratoryReport nodes,*)
(* each kind in document order.  A child's text is None when the child is   *)
(* absent and Empty when it has no text.                                    *)
(***************************************************************************)
NoServices ==
    [built |-> FALSE, encounters |-> <<>>, regimens |-> <<>>, labs |-> <<>>,
     patient |-> <<>>, art_start |-> NoDate, ipt_codes |-> {}]

\* lines 59-61
PatientOfDemographics(d) ==
    IF d.demo.present THEN ("dob" :> d.demo.dob) ELSE <<>>

\* lines 63-66
PatientOfCommon(d) ==
    IF d.common.present
    THEN ("age" :> d.common.age) @@ ("report_date" :> d.common.report_date)
    ELSE <<>>

\* lines 68-75: a missing or empty ARTStartDate, and one strptime rejects,
\* leave art_start None (NoDate)
ArtStartOf(d) ==
    IF d.hivq.present /\ Truthy(d.hivq.art) THEN StrpTime(d.hivq.art) ELSE NoDate

RegimenKey(reg) == OrElse(reg.VisitDate, Unknown)

RegimenValue(reg) ==
    [code |-> OrElse(reg.Code, Empty), type |-> reg.Type, mmd |-> reg.MMD,
     dsd |-> reg.DSD, duration |-> reg.Duration]

\* lines 77-84
RECURSIVE RegimensOf(_)
RegimensOf(nodes) ==
    IF nodes = <<>> THEN <<>>
    ELSE LET reg == nodes[Len(nodes)]
         IN  DictSet(RegimensOf(SubSeq(nodes, 1, Len(nodes) - 1)),
                     RegimenKey(reg), RegimenValue(reg))

\* the IPT dates read off the regimens that survive in the collection
IptCodesOf_Surviving(nodes) ==
    {RegimensOf(nodes)[i].k :
        i \in {j \in 1..Len(RegimensOf(nodes)) : IsIPT(RegimensOf(nodes)[j].v.code)}}

\* lines 85-86
IptCodesOf(nodes) ==
    {RegimenKey(nodes[i]) : i \in {j \in 1..Len(nodes) : IsIPT(OrElse(nodes[j].Code, Empty))}}

EncounterKey(e) == OrElse(e.VisitDate, Unknown)

\* lines 88-92
RECURSIVE EncountersOf(_)
EncountersOf(nodes) ==
    IF nodes = <<>> THEN <<>>
    ELSE LET e == nodes[Len(nodes)]
         IN  DictSet(EncountersOf(SubSeq(nodes, 1, Len(nodes) - 1)),
                     EncounterKey(e), [arv |-> e.ARV, tb |-> e.TB])

LabKey(l) == OrElse(l.VisitDate, Unknown)

\* lines 94-99
RECURSIVE LabsOf(_)
LabsOf(nodes) ==
    IF nodes = <<>> THEN <<>>
    ELSE LET l == nodes[Len(nodes)]
         IN  DictSet(LabsOf(SubSeq(nodes, 1, Len(nodes) - 1)),
                     LabKey(l), [test_id |-> l.TestId, collected |-> l.Collected])

\* an extractor that builds a record from what was read before the error
ExtractServices_Lenient(d) ==
    [exc |-> "None",
     services |->
        [built |-> TRUE,
         encounters |-> EncountersOf(d.encs),
         regimens |-> RegimensOf(d.regs),
         labs |-> LabsOf(d.labs),
         patient |-> PatientOfDemographics(d) @@ PatientOfCommon(d),
         art_start |-> ArtStartOf(d),
         ipt_codes |-> IptCodesOf(d.regs)]]

(***************************************************************************)
(* extract_services_with_dates on the content of the file: [exc, services]. *)
(* ET.parse raises ParseError for a document that is not well-formed,       *)
(* before anything else is done.                                            *)
(***************************************************************************)
ExtractServices(d) ==
    IF ~d.wf THEN [exc |-> "ParseError", services |-> NoServices]
    ELSE [exc |-> "None",
          services |->
            [built |-> TRUE,
             encounters |-> EncountersOf(d.encs),
             regimens |-> RegimensOf(d.regs),
             labs |-> LabsOf(d.labs),
             patient |-> PatientOfDemographics(d) @@ PatientOfCommon(d),
             art_start |-> ArtStartOf(d),
             ipt_codes |-> IptCodesOf(d.regs)]]

(***************************************************************************)
(* Issues.  An issue string is its template (kind), the key it cites and    *)
(* the other values formatted into it.                                      *)
(***************************************************************************)
Issue(kind, date, detail) == [kind |-> kind, date |-> date, detail |-> detail]

\* the threshold of line 133
MMDThreshold == 30

(***************************************************************************)
(* The seven rules of validate_ndr.  Each gives [exc, out]: the issues it   *)
(* appends, and whether an exception leaves the rule (exc), which would     *)
(* leave validate_ndr too.  A try/except of the code is the place where     *)
(* ok = FALSE of a conversion turns into a skip or a warning.               *)
(***************************************************************************)

\* lines 105-109
EncounterCompleteness(s) ==
    [exc |-> FALSE,
     out |-> Flatten([i \in 1..Len(s.encounters) |->
                (IF ~Truthy(s.encounters[i].v.arv)
                 THEN <<Issue("MissingARV", s.encounters[i].k, <<>>)>> ELSE <<>>)
                \o
                (IF s.encounters[i].k = Unknown
                 THEN <<Issue("MissingVisitDate", Unknown, <<>>)>> ELSE <<>>)])]

\* rule 2 with <= for <: an encounter on the ART start date is reported
ArtStartOrdering_NotAfter(s) ==
    [exc |-> FALSE,
     out |-> IF s.art_start.ok
             THEN Flatten([i \in 1..Len(s.encounters) |->
                    LET visit_date == StrpTime(s.encounters[i].k)
                    IN  IF visit_date.ok /\ ~DateLess(s.art_start, visit_date)
                        THEN <<Issue("BeforeARTStart", s.encounters[i].k,
                                     <<s.art_start.y, s.art_start.m, s.art_start.d>>)>>
                        ELSE <<>>])
             ELSE <<>>]

\* lines 111-119
ArtStartOrdering(s) ==
    [exc |-> FALSE,
     out |-> IF s.art_start.ok
             THEN Flatten([i \in 1..Len(s.encounters) |->
                    LET visit_date == StrpTime(s.encounters[i].k)
                    IN  IF visit_date.ok /\ DateLess(visit_date, s.art_start)
                        THEN <<Issue("BeforeARTStart", s.encounters[i].k,
                                     <<s.art_start.y, s.art_start.m, s.art_start.d>>)>>
                        ELSE <<>>])
             ELSE <<>>]

\* line 121
TbEncounters(s) ==
    LET pos == SelectSeq(s.encounters, LAMBDA en : en.v.tb = <<"1">>)
    IN  [i \in 1..Len(pos) |-> pos[i].k]

\* lines 121-124
TbIptCheck(s) ==
    LET tb_encounters == TbEncounters(s)
    IN  [exc |-> FALSE,
         out |-> IF tb_encounters # <<>> /\ s.ipt_codes = {}
                 THEN [i \in 1..Len(tb_encounters) |->
                         Issue("TBNoIPT", tb_encounters[i], <<>>)]
                 ELSE <<>>]

\* lines 126-128
LabCompleteness(s) ==
    [exc |-> FALSE,
     out |-> Flatten([i \in 1..Len(s.labs) |->
                IF ~Truthy(s.labs[i].v.test_id) \/ ~Truthy(s.labs[i].v.collected)
                THEN <<Issue("LabIncomplete", s.labs[i].k, <<>>)>> ELSE <<>>])]

\* line 132: int(r.get('duration') or 0)
DurationOf(r) == IF Truthy(r.duration) THEN IntParse(r.duration)
                 ELSE [ok |-> TRUE, val |-> 0]

\* rule 5 without its try/except: a duration int() rejects raises
MmdRequirement_NoTry(s) ==
    [exc |-> \E i \in 1..Len(s.regimens) : ~DurationOf(s.regimens[i].v).ok,
     out |-> Flatten([i \in 1..Len(s.regimens) |->
                LET duration == DurationOf(s.regimens[i].v)
                IN  IF duration.ok /\ duration.val > MMDThreshold
                       /\ ~Truthy(s.regimens[i].v.mmd)
                    THEN <<Issue("NoMMD", s.regimens[i].k, <<>>)>> ELSE <<>>])]

\* lines 130-136
MmdRequirement(s) ==
    [exc |-> FALSE,
     out |-> Flatten([i \in 1..Len(s.regimens) |->
                LET duration == DurationOf(s.regimens[i].v)
                IN  IF duration.ok /\ duration.val > MMDThreshold
                       /\ ~Truthy(s.regimens[i].v.mmd)
                    THEN <<Issue("NoMMD", s.regimens[i].k, <<>>)>> ELSE <<>>])]

\* lines 138-144
ArvRegimenMatch(s) ==
    [exc |-> FALSE,
     out |-> Flatten([i \in 1..Len(s.encounters) |->
                LET date == s.encounters[i].k
                    encounter_arv == s.encounters[i].v.arv
                IN  IF DictHas(s.regimens, date)
                    THEN LET regimen == DictGet(s.regimens, date)
                         IN  IF /\ regimen.type = <<"A", "R", "T">>
                                /\ Truthy(encounter_arv) /\ Truthy(regimen.code)
                                /\ encounter_arv # regimen.code
                             THEN <<Issue("ARVMismatch", date,
                                          <<encounter_arv, regimen.code>>)>>
                             ELSE <<>>
                    ELSE <<>>])]

\* the age as the difference of the years alone
CalcAge_YearsOnly(dob_dt, rpt_dt) == rpt_dt.y - dob_dt.y

\* line 152
CalcAge(dob_dt, rpt_dt) ==
    rpt_dt.y - dob_dt.y
    - (IF rpt_dt.m < dob_dt.m \/ (rpt_dt.m = dob_dt.m /\ rpt_dt.d < dob_dt.d)
       THEN 1 ELSE 0)

Abs(x) == IF x < 0 THEN 0 - x ELSE x

\* lines 146-156
AgeConsistency(s) ==
    LET dob == Get(s.patient, "dob")
        age == Get(s.patient, "age")
        report_date == Get(s.patient, "report_date")
        dob_dt == StrpTime(dob)
        rpt_dt == StrpTime(report_date)
        age_int == IntParse(age)
    IN  [exc |-> FALSE,
         out |-> IF dob_dt.ok /\ rpt_dt.ok /\ age_int.ok
                 THEN (IF Abs(age_int.val - CalcAge(dob_dt, rpt_dt)) > 1
                       THEN <<Issue("AgeMismatch", None,
                                    <<age, CalcAge(dob_dt, rpt_dt)>>)>>
                       ELSE <<>>)
                 ELSE <<Issue("AgeFormatWarning", None, <<>>)>>]

(***************************************************************************)
(* The upload handler (lines 160-193), for a POST that carries a file whose *)
(* name ends in ".xml".  One process per request.                           *)
(***************************************************************************)
NoIssues == [none |-> TRUE, list |-> <<>>]
ListOf(l) == [none |-> FALSE, list |-> l]

ErrNone == "None"
ErrParse == "Failed to parse XML. Please upload a well-formed XML file."
ErrUnexpected == "An unexpected error occurred"

EmptyDoc ==
    [wf |-> FALSE,
     demo |-> [present |-> FALSE, dob |-> None],
     common |-> [present |-> FALSE, age |-> None, report_date |-> None],
     hivq |-> [present |-> FALSE, art |-> None],
     regs |-> <<>>, encs |-> <<>>, labs |-> <<>>]

NoFile == [exists |-> FALSE, content |-> EmptyDoc]

\* lines 172-173: os.path.join(tempfile.gettempdir(), file.filename)
FilePath(name) == <<"tmp", name>>

\* line 175: file.save(filepath), taken as one step
Save(r) ==
    /\ pc[r] = "save"
    /\ fs' = [fs EXCEPT ![FilePath(fname[r])] = [exists |-> TRUE, content |-> doc[r]]]
    /\ pc' = [pc EXCEPT ![r] = "extract"]
    /\ UNCHANGED <<doc, fname, services, v_issues, ran, issues, error_message>>

\* lines 179, 181-185: extraction of the file at filepath, and the handlers
\* of the exceptions that leave it
Extract(r) ==
    /\ pc[r] = "extract"
    /\ LET file == fs[FilePath(fname[r])]
           got == IF file.exists THEN ExtractServices(file.content)
                  ELSE [exc |-> "FileNotFoundError", services |-> NoServices]
       IN  /\ services' = [services EXCEPT ![r] = got.services]
           /\ error_message' =
                [error_message EXCEPT ![r] =
                    IF got.exc = "ParseError" THEN ErrParse
                    ELSE IF got.exc = "None" THEN @ ELSE ErrUnexpected]
           /\ pc' = [pc EXCEPT ![r] = IF got.exc = "None" THEN "rule1" ELSE "finally"]
    /\ UNCHANGED <<doc, fname, fs, v_issues, ran, issues>>

\* One rule of validate_ndr (line 180): its issues are appended; an exception
\* that left it would be caught at line 183.
RulePc == <<"rule1", "rule2", "rule3", "rule4", "rule5", "rule6", "rule7", "finally">>

RuleStep(r, n, res) ==
    /\ pc[r] = RulePc[n]
    /\ ran' = [ran EXCEPT ![r] = @ \cup {n}]
    /\ IF res.exc
       THEN /\ error_message' = [error_message EXCEPT ![r] = ErrUnexpected]
            /\ pc' = [pc EXCEPT ![r] = "finally"]
            /\ UNCHANGED <<v_issues, issues>>
       ELSE /\ v_issues' = [v_issues EXCEPT ![r] = @ \o res.out]
            /\ pc' = [pc EXCEPT ![r] = RulePc[n + 1]]
            /\ issues' = IF RulePc[n + 1] = "finally"
                         THEN [issues EXCEPT ![r] = ListOf(v_issues'[r])]
                         ELSE issues
            /\ UNCHANGED error_message
    /\ UNCHANGED <<doc, fname, fs, services>>

Rule1(r) == RuleStep(r, 1, EncounterCompleteness(services[r]))
Rule2(r) == RuleStep(r, 2, ArtStartOrdering(services[r]))
Rule3(r) == RuleStep(r, 3, TbIptCheck(services[r]))
Rule4(r) == RuleStep(r, 4, LabCompleteness(services[r]))
Rule5(r) == RuleStep(r, 5, MmdRequirement(services[r]))
Rule6(r) == RuleStep(r, 6, ArvRegimenMatch(services[r]))
\* rule 7 and the return of line 158
Rule7(r) == RuleStep(r, 7, AgeConsistency(services[r]))

\* line 187: os.path.exists(filepath)
Finally(r) ==
    /\ pc[r] = "finally"
    /\ pc' = [pc EXCEPT ![r] = IF fs[FilePath(fname[r])].exists THEN "remove" ELSE "done"]
    /\ UNCHANGED <<doc, fname, fs, services, v_issues, ran, issues, error_message>>

\* line 188: os.remove(filepath); FileNotFoundError leaves the handler, and
\* the request ends without a rendered result
Remove(r) ==
    /\ pc[r] = "remove"
    /\ IF fs[FilePath(fname[r])].exists
       THEN /\ fs' = [fs EXCEPT ![FilePath(fname[r])] = NoFile]
            /\ pc' = [pc EXCEPT ![r] = "done"]
       ELSE /\ pc' = [pc EXCEPT ![r] = "crashed"]
            /\ UNCHANGED fs
    /\ UNCHANGED <<doc, fname, services, v_issues, ran, issues, error_message>>

Step(r) ==
    \/ Save(r) \/ Extract(r)
    \/ Rule1(r) \/ Rule2(r) \/ Rule3(r) \/ Rule4(r) \/ Rule5(r) \/ Rule6(r) \/ Rule7(r)
    \/ Finally(r) \/ Remove(r)

\* the requests in flight: at most two
Reqs == {1, 2}

Next == \E r \in Reqs : Step(r)

(***************************************************************************)
(* The documents uploaded.  Texts of the fields.                            *)
(***************************************************************************)
D_2024_01_10 == <<"2", "0", "2", "4", "-", "0", "1", "-", "1", "0">>
D_2024_02_01 == <<"2", "0", "2", "4", "-", "0", "2", "-", "0", "1">>
\* the same day as D_2024_02_01, written without padding
D_2024_2_1 == <<"2", "0", "2", "4", "-", "2", "-", "1">>
\* no day of the calendar
D_2024_02_30 == <<"2", "0", "2", "4", "-", "0", "2", "-", "3", "0">>
D_2000_06_15 == <<"2", "0", "0", "0", "-", "0", "6", "-", "1", "5">>
D_2000_02_29 == <<"2", "0", "0", "0", "-", "0", "2", "-", "2", "9">>
D_2001_02_29 == <<"2", "0", "0", "1", "-", "0", "2", "-", "2", "9">>
D_2024_06_10 == <<"2", "0", "2", "4", "-", "0", "6", "-", "1", "0">>
D_2024_06_15 == <<"2", "0", "2", "4", "-", "0", "6", "-", "1", "5">>
D_2024_02_28 == <<"2", "0", "2", "4", "-", "0", "2", "-", "2", "8">>
D_15_06_2000 == <<"1", "5", "/", "0", "6", "/", "2", "0", "0", "0">>

TLD == <<"T", "L", "D">>
AZT == <<"A", "Z", "T">>
ART == <<"A", "R", "T">>
\* codes that contain INH once uppercased, and one that does not
Code_xInh == <<"x", "I", "n", "h">>
Code_INH == <<"I", "N", "H">>
Code_IN_H == <<"I", "N", "-", "H">>

EncNode(date, arv, tb) == [VisitDate |-> date, ARV |-> arv, TB |-> tb]

RegNode(date, code, type, mmd, duration) ==
    [VisitDate |-> date, Code |-> code, Type |-> type, MMD |-> mmd,
     DSD |-> None, Duration |-> duration]

LabNode(date, test_id, collected) ==
    [VisitDate |-> date, TestId |-> test_id, Collected |-> collected]

SeqsUpTo(S, n) == UNION {[1..k -> S] : k \in 0..n}

NoDemo == [present |-> FALSE, dob |-> None]
NoCommon == [present |-> FALSE, age |-> None, report_date |-> None]
NoHivq == [present |-> FALSE, art |-> None]

Doc(demo, common, hivq, regs, encs, labs) ==
    [wf |-> TRUE, demo |-> demo, common |-> common, hivq |-> hivq,
     regs |-> regs, encs |-> encs, labs |-> labs]

\* encounters with and without a visit date and an ARV code
EncDocs ==
    {Doc(NoDemo, NoCommon, NoHivq, <<>>, encs, <<>>) :
        encs \in SeqsUpTo({EncNode(d, a, None) :
                             d \in {None, Empty, D_2024_01_10, Unknown},
                             a \in {None, Empty, TLD}}, MaxEnc)}

\* encounters before, on and after the ART start date
ArtDocs ==
    {Doc(NoDemo, NoCommon, h, <<>>, encs, <<>>) :
        h \in {NoHivq} \cup {[present |-> TRUE, art |-> a] :
                               a \in {None, Empty, D_2024_02_01, D_2024_02_30}},
        encs \in SeqsUpTo({EncNode(d, TLD, None) :
                             d \in {None, D_2024_01_10, D_2024_02_01, D_2024_2_1,
                                    D_2024_02_30}}, MaxEnc)}

\* TB status of the encounters and the codes of the regimens
TbDocs ==
    {Doc(NoDemo, NoCommon, NoHivq, regs, encs, <<>>) :
        regs \in SeqsUpTo({RegNode(D_2024_01_10, Code_xInh, None, None, None),
                           RegNode(D_2024_01_10, TLD, None, None, None),
                           RegNode(D_2024_02_01, TLD, None, None, None)}, MaxReg),
        encs \in SeqsUpTo({EncNode(D_2024_01_10, TLD, <<"1">>),
                           EncNode(D_2024_01_10, TLD, <<"0">>),
                           EncNode(D_2024_02_01, TLD, <<"1">>)}, MaxEnc)}

\* TB status and regimen codes, one node of each
TbDocs1 ==
    {Doc(NoDemo, NoCommon, NoHivq, <<RegNode(D_2024_01_10, c, None, None, None)>>,
         <<EncNode(D_2024_02_01, TLD, t)>>, <<>>) :
        c \in {None, Empty, Code_INH, Code_IN_H, <<"i", "n", "h">>},
        t \in {None, Empty, <<"1">>, <<" ", "1">>, <<"0", "1">>}}

\* durations and MMD values of the regimens
RegDocs ==
    {Doc(NoDemo, NoCommon, NoHivq, regs, <<>>, <<>>) :
        regs \in SeqsUpTo({RegNode(d, TLD, ART, m, n) :
                             d \in {None, D_2024_01_10},
                             m \in {None, <<"1">>},
                             n \in {None, <<"3", "0">>, <<"3", "1">>, <<"3", "x">>}},
                          MaxReg)}

\* the forms of integer int() accepts and rejects
RegDocs1 ==
    {Doc(NoDemo, NoCommon, NoHivq, <<RegNode(D_2024_01_10, TLD, ART, m, n)>>, <<>>, <<>>) :
        m \in {None, Empty, <<"1">>},
        n \in {Empty, <<" ", "4", "5", " ">>, <<"+", "4", "_", "5">>, <<"-", "4", "5">>,
               <<"4", "_", "_", "5">>, <<"3", "1", ".", "0">>, <<"0", "3", "1">>,
               <<"9", "0">>}}

LabDocs ==
    {Doc(NoDemo, NoCommon, NoHivq, <<>>, <<>>, labs) :
        labs \in SeqsUpTo({LabNode(d, t, c) :
                             d \in {None, D_2024_01_10},
                             t \in {None, <<"V", "L">>},
                             c \in {Empty, D_2024_01_10}}, MaxLab)}

\* date of birth, reported age and report date
AgeDocs ==
    {Doc(demo, common, NoHivq, <<>>, encs, <<>>) :
        demo \in {NoDemo} \cup {[present |-> TRUE, dob |-> b] :
                    b \in {None, Empty, D_2000_06_15, D_2000_02_29, D_2001_02_29,
                           D_15_06_2000}},
        common \in {NoCommon} \cup {[present |-> TRUE, age |-> a, report_date |-> rd] :
                    a \in {None, Empty, <<"2", "1">>, <<"2", "2">>, <<"2", "3">>,
                           <<"2", "4">>, <<"2", "5">>, <<"2", "6">>, <<" ", "2", "3">>,
                           <<"2", "3", ".", "5">>},
                    rd \in {None, D_2024_06_10, D_2024_06_15, D_2024_02_28,
                            D_2024_02_30}},
        encs \in {<<>>, <<EncNode(D_2024_01_10, None, None)>>}}

\* every part present: two values of each node, in every order
MixDocs ==
    {Doc(demo, common, hivq, regs, encs, labs) :
        demo \in {NoDemo, [present |-> TRUE, dob |-> D_2000_06_15]},
        common \in {[present |-> TRUE, age |-> <<"3", "0">>, report_date |-> D_2024_06_10]},
        hivq \in {[present |-> TRUE, art |-> D_2024_02_01]},
        regs \in SeqsUpTo({RegNode(D_2024_01_10, AZT, ART, None, <<"6", "0">>),
                           RegNode(None, TLD, ART, Empty, <<"9", "x">>)}, MaxReg),
        encs \in SeqsUpTo({EncNode(D_2024_01_10, TLD, <<"1">>),
                           EncNode(None, None, <<"1">>)}, MaxMix),
        labs \in {<<>>,
                  <<LabNode(None, None, None), LabNode(D_2024_01_10, <<"V", "L">>, Empty)>>}}

WellFormedDocs ==
    EncDocs \cup ArtDocs \cup TbDocs \cup TbDocs1 \cup RegDocs \cup RegDocs1
    \cup LabDocs \cup AgeDocs \cup MixDocs

\* documents that are not well-formed, whatever the parser saw of them
\* before the error
MalformedDocs == {[d EXCEPT !.wf = FALSE] : d \in LabDocs}

Docs == WellFormedDocs \cup MalformedDocs

FileNames == {"a.xml", "b.xml"}

\* the requests of active upload a document of docs; the others never arrive
InitOf(active, docs) ==
    /\ \E d \in [active -> docs] :
          doc = [r \in Reqs |-> IF r \in active THEN d[r] ELSE EmptyDoc]
    /\ \E n \in [active -> FileNames] :
          fname = [r \in Reqs |-> IF r \in active THEN n[r] ELSE "b.xml"]
    /\ fs = [p \in {FilePath(n) : n \in FileNames} |-> NoFile]
    /\ pc = [r \in Reqs |-> IF r \in active THEN "save" ELSE "idle"]
    /\ services = [r \in Reqs |-> NoServices]
    /\ v_issues = [r \in Reqs |-> <<>>]
    /\ ran = [r \in Reqs |-> {}]
    /\ issues = [r \in Reqs |-> NoIssues]
    /\ error_message = [r \in Reqs |-> ErrNone]

\* one request
Init == InitOf({1}, Docs) /\ fname[1] = "a.xml"

Spec == Init /\ [][Next]_vars

\* two requests in flight at once: the server handles each request in a
\* thread of its own
ConcDocs ==
    {Doc(NoDemo, NoCommon, NoHivq, <<>>, <<EncNode(D_2024_01_10, None, None)>>, <<>>),
     Doc(NoDemo, NoCommon, NoHivq, <<>>, <<EncNode(D_2024_01_10, TLD, None)>>,
         <<LabNode(D_2024_01_10, None, None)>>),
     [Doc(NoDemo, NoCommon, NoHivq, <<>>, <<>>, <<>>) EXCEPT !.wf = FALSE]}

InitConc == InitOf(Reqs, ConcDocs)

SpecConc == InitConc /\ [][Next]_vars

\* validate_ndr as a whole (lines 103-158)
ValidateNdr(s) ==
    Flatten(<<EncounterCompleteness(s).out, ArtStartOrdering(s).out, TbIptCheck(s).out,
              LabCompleteness(s).out, MmdRequirement(s).out, ArvRegimenMatch(s).out,
              AgeConsistency(s).out>>)

(***************************************************************************)
(* The properties checked.                                                  *)
(***************************************************************************)
Returned(r) == pc[r] = "done" /\ ~issues[r].none

HasIssue(r, kind, date) ==
    \E j \in 1..Len(issues[r].list) :
        issues[r].list[j].kind = kind /\ issues[r].list[j].date = date

\* the text the document gives for a field of the patient
DobText(d) == IF d.demo.present THEN d.demo.dob ELSE None
AgeText(d) == IF d.common.present THEN d.common.age ELSE None
ReportText(d) == IF d.common.present THEN d.common.report_date ELSE None
ArtText(d) == IF d.hivq.present THEN d.hivq.art ELSE None

\* C1: once a record has been extracted, validate_ndr runs its seven rules
\* in turn, whatever fails to parse inside a rule, and returns a list: the
\* handler ends with the list and no error message, never with an exception.
C1_ValidateRunsAllRules ==
    \A r \in Reqs :
        /\ services[r].built /\ pc[r] \in {"finally", "remove", "done"}
              => ran[r] = 1..7 /\ ~issues[r].none /\ error_message[r] = ErrNone
        /\ \A n \in 1..7 : pc[r] = RulePc[n] => ran[r] = 1..(n - 1)

\* a record in which rules 2, 5 and 7 each meet a value that does not parse
C1_Witness ==
    /\ Returned(1) /\ ran[1] = 1..7
    /\ services[1].art_start.ok
    /\ \E i \in 1..Len(services[1].encounters) : ~StrpTime(services[1].encounters[i].k).ok
    /\ \E i \in 1..Len(services[1].regimens) : ~DurationOf(services[1].regimens[i].v).ok
    /\ ~StrpTime(Get(services[1].patient, "dob")).ok

\* C2: every HIVEncounter node of the document whose ARV code is absent has
\* a "Missing ARV regimen" issue citing its visit date (Unknown when the
\* visit date is missing), also when several encounters share a visit date.
C2_EveryEncounterWithoutArvReported ==
    \A r \in Reqs :
        Returned(r) =>
            \A i \in 1..Len(doc[r].encs) :
                doc[r].encs[i].ARV = None
                    => HasIssue(r, "MissingARV", OrElse(doc[r].encs[i].VisitDate, Unknown))

\* the duration of a Regimen node, as the claim reads it: zero when absent
\* or empty, no integer when unparseable
ClaimDuration(reg) ==
    IF reg.Duration = None \/ reg.Duration = Empty THEN [ok |-> TRUE, val |-> 0]
    ELSE IntParse(reg.Duration)

\* C3: every Regimen node whose duration parses to more than 30 and whose
\* MMD value is absent or empty has an MMD issue for its visit date, and for
\* a node whose duration is at most 30, absent or unparseable no MMD issue
\* appears for its date, also when several regimens share a visit date.
C3_MmdIssuePerRegimen ==
    \A r \in Reqs :
        Returned(r) =>
            \A i \in 1..Len(doc[r].regs) :
                LET reg == doc[r].regs[i]
                    date == OrElse(reg.VisitDate, Unknown)
                    dur == ClaimDuration(reg)
                IN  /\ (dur.ok /\ dur.val > 30 /\ (reg.MMD = None \/ reg.MMD = Empty))
                          => HasIssue(r, "NoMMD", date)
                    /\ (~dur.ok \/ dur.val <= 30) => ~HasIssue(r, "NoMMD", date)

\* what the handler gives for a document processed alone
AloneIssues(d) ==
    IF d.wf THEN ListOf(ValidateNdr(ExtractServices(d).services)) ELSE NoIssues

AloneError(d) == IF d.wf THEN ErrNone ELSE ErrParse

\* C4: under every interleaving of two requests, whatever their filenames,
\* each request ends with the result its own document alone would give.
C4_RequestsIndependent ==
    \A r \in Reqs :
        pc[r] \in {"done", "crashed"}
            => /\ pc[r] = "done"
               /\ error_message[r] = AloneError(doc[r])
               /\ issues[r] = AloneIssues(doc[r])

RuleOf(kind) ==
    CASE kind \in {"MissingARV", "MissingVisitDate"} -> 1
      [] kind = "BeforeARTStart" -> 2
      [] kind = "TBNoIPT" -> 3
      [] kind = "LabIncomplete" -> 4
      [] kind = "NoMMD" -> 5
      [] kind = "ARVMismatch" -> 6
      [] kind \in {"AgeMismatch", "AgeFormatWarning"} -> 7

\* the visit-date keys of the nodes a rule goes through, in document order
KeysOfRule(d, n) ==
    IF n = 4 THEN [i \in 1..Len(d.labs) |-> OrElse(d.labs[i].VisitDate, Unknown)]
    ELSE IF n = 5 THEN [i \in 1..Len(d.regs) |-> OrElse(d.regs[i].VisitDate, Unknown)]
    ELSE [i \in 1..Len(d.encs) |-> OrElse(d.encs[i].VisitDate, Unknown)]

\* where a key first occurs (0 when it does not)
FirstOcc(keys, k) ==
    IF \E i \in 1..Len(keys) : keys[i] = k
    THEN CHOOSE i \in 1..Len(keys) : keys[i] = k /\ \A j \in 1..(i - 1) : keys[j] # k
    ELSE 0

\* C6: the issues of the list are in the order of the seven rules, and the
\* issues of one per-entry rule are in the order in which their visit-date
\* keys first occur in the document (rule 1 giving the ARV issue of a key
\* before its VisitDate issue).
C6_IssueOrder ==
    \A r \in Reqs :
        Returned(r) =>
            LET L == issues[r].list
            IN  \A i \in 1..Len(L) : \A j \in (i + 1)..Len(L) :
                    /\ RuleOf(L[i].kind) <= RuleOf(L[j].kind)
                    /\ (RuleOf(L[i].kind) = RuleOf(L[j].kind) /\ RuleOf(L[i].kind) # 7)
                          => LET keys == KeysOfRule(doc[r], RuleOf(L[i].kind))
                             IN  /\ FirstOcc(keys, L[i].date) > 0
                                 /\ \/ FirstOcc(keys, L[i].date) < FirstOcc(keys, L[j].date)
                                    \/ /\ L[i].date = L[j].date
                                       /\ L[i].kind = "MissingARV"
                                       /\ L[j].kind = "MissingVisitDate"

\* every rule has an issue in the list, rule 3 for two keys, and the first
\* encounter key of the document occurs again after the second
C6_Witness ==
    /\ Returned(1)
    /\ \A n \in 1..7 : \E j \in 1..Len(issues[1].list) : RuleOf(issues[1].list[j].kind) = n
    /\ HasIssue(1, "TBNoIPT", D_2024_01_10) /\ HasIssue(1, "TBNoIPT", Unknown)
    /\ Len(doc[1].encs) = 3
    /\ doc[1].encs[1].VisitDate = doc[1].encs[3].VisitDate
    /\ doc[1].encs[1].VisitDate # doc[1].encs[2].VisitDate

AgeKinds == {"AgeMismatch", "AgeFormatWarning"}

\* the age in whole years on the report date
ClaimAge(dob, rpt) ==
    IF rpt.m < dob.m \/ (rpt.m = dob.m /\ rpt.d < dob.d)
    THEN rpt.y - dob.y - 1
    ELSE rpt.y - dob.y

\* C7: the age rule gives no issue or one, the last of the list: a mismatch
\* iff date of birth, report date and reported age parse and the reported
\* age is more than 1 from the age on the report date, the format warning
\* iff one of the three is missing or does not parse; born 2000-06-15 and
\* reported 2024-06-10, age 23 gives no issue and age 25 a mismatch citing
\* 25 and 23.
C7_AgeRule ==
    \A r \in Reqs :
        Returned(r) =>
            LET L == issues[r].list
                d == doc[r]
                dob == StrpTime(DobText(d))
                rpt == StrpTime(ReportText(d))
                age == IntParse(AgeText(d))
                parsed == dob.ok /\ rpt.ok /\ age.ok
                last == IF L = <<>> THEN "none" ELSE L[Len(L)].kind
            IN  /\ \A i \in 1..(Len(L) - 1) : L[i].kind \notin AgeKinds
                /\ (last = "AgeFormatWarning") <=> ~parsed
                /\ (last = "AgeMismatch")
                      <=> (parsed /\ (age.val - ClaimAge(dob, rpt) > 1
                                      \/ ClaimAge(dob, rpt) - age.val > 1))
                /\ (last = "AgeMismatch")
                      => L[Len(L)].detail = <<AgeText(d), ClaimAge(dob, rpt)>>
                /\ (DobText(d) = D_2000_06_15 /\ ReportText(d) = D_2024_06_10)
                      => /\ AgeText(d) = <<"2", "3">> => last \notin AgeKinds
                         /\ AgeText(d) = <<"2", "5">>
                               => /\ last = "AgeMismatch"
                                  /\ L[Len(L)].detail = <<<<"2", "5">>, 23>>

\* the scenario of the claim with reported age 25, after an encounter issue
C7_Witness ==
    /\ Returned(1)
    /\ DobText(doc[1]) = D_2000_06_15 /\ ReportText(doc[1]) = D_2024_06_10
    /\ AgeText(doc[1]) = <<"2", "5">>
    /\ Len(issues[1].list) = 2
    /\ issues[1].list[1].kind = "MissingARV"
    /\ issues[1].list[2].kind = "AgeMismatch"

\* the code of a Regimen node contains INH, whatever the case of its letters
MentionsINH(reg) ==
    LET code == IF reg.Code = None THEN Empty ELSE reg.Code
    IN  \E i \in 1..(Len(code) - 2) :
            /\ code[i] \in {"I", "i"}
            /\ code[i + 1] \in {"N", "n"}
            /\ code[i + 2] \in {"H", "h"}

\* the HIVEncounter node that survives under key k: the last one so keyed
SurvivingEnc(d, k) ==
    LET at == {i \in 1..Len(d.encs) : OrElse(d.encs[i].VisitDate, Unknown) = k}
    IN  d.encs[CHOOSE i \in at : \A j \in at : j <= i]

EncKeys(d) == {OrElse(d.encs[i].VisitDate, Unknown) : i \in 1..Len(d.encs)}

\* C8: there is a TB/IPT issue for date d iff the surviving encounter keyed d
\* has TB status "1" and no Regimen node of the document, overwritten or
\* not, on that date or another, has a code containing INH.
C8_TbIptDocumentWide ==
    \A r \in Reqs :
        Returned(r) =>
            LET d == doc[r]
                L == issues[r].list
                noIpt == \A i \in 1..Len(d.regs) : ~MentionsINH(d.regs[i])
            IN  /\ \A k \in EncKeys(d) :
                       HasIssue(r, "TBNoIPT", k)
                           <=> (SurvivingEnc(d, k).TB = <<"1">> /\ noIpt)
                /\ \A j \in 1..Len(L) : L[j].kind = "TBNoIPT" => L[j].date \in EncKeys(d)

\* a TB-positive encounter, and a regimen with INH on another date that a
\* later regimen of that date overwrote
C8_Witness ==
    /\ Returned(1)
    /\ Len(doc[1].regs) = 2 /\ Len(doc[1].encs) = 1
    /\ doc[1].regs[1].VisitDate = doc[1].regs[2].VisitDate
    /\ MentionsINH(doc[1].regs[1]) /\ ~MentionsINH(doc[1].regs[2])
    /\ doc[1].encs[1].TB = <<"1">>
    /\ doc[1].encs[1].VisitDate # doc[1].regs[1].VisitDate
    /\ ~HasIssue(1, "TBNoIPT", doc[1].encs[1].VisitDate)

\* C9: there is an ART-start issue for encounter key d iff the ARTStartDate
\* of the document parses, d parses and d is strictly before it; a key on
\* the ART start date, a key that does not parse, and a missing, empty or
\* unparseable ARTStartDate give none.
C9_ArtStartOrdering ==
    \A r \in Reqs :
        Returned(r) =>
            LET d == doc[r]
                L == issues[r].list
                art == IF ArtText(d) = None \/ ArtText(d) = Empty THEN NoDate
                       ELSE StrpTime(ArtText(d))
            IN  /\ \A k \in EncKeys(d) :
                       HasIssue(r, "BeforeARTStart", k)
                           <=> (art.ok /\ StrpTime(k).ok /\ DateLess(StrpTime(k), art))
                /\ \A j \in 1..Len(L) :
                       L[j].kind = "BeforeARTStart"
                           => /\ L[j].date \in EncKeys(d)
                              /\ L[j].detail = <<art.y, art.m, art.d>>

\* an encounter before the ART start date and one on it
C9_Witness ==
    /\ Returned(1)
    /\ ArtText(doc[1]) = D_2024_02_01
    /\ HasIssue(1, "BeforeARTStart", D_2024_01_10)
    /\ D_2024_2_1 \in EncKeys(doc[1])
    /\ ~HasIssue(1, "BeforeARTStart", D_2024_2_1)

\* C10: the list holds at most one "Missing VisitDate" issue, and one iff
\* some HIVEncounter node of the document has a missing or empty visit date.
C10_MissingVisitDateIssue ==
    \A r \in Reqs :
        Returned(r) =>
            LET L == issues[r].list
                at == {j \in 1..Len(L) : L[j].kind = "MissingVisitDate"}
            IN  /\ Cardinality(at) <= 1
                /\ (at # {}) <=> \E i \in 1..Len(doc[r].encs) :
                                    doc[r].encs[i].VisitDate \in {None, Empty}

====
